---- MODULE Spec2Model ----
(***************************************************************************)
(* Model of the Go-Minio HTTP facade (src/main.go): the five request       *)
(* handlers over one bucket, and the /watch SSE bridge.                    *)
(*                                                                         *)
(* Strings that the code takes apart (object keys, file names, URL paths)  *)
(* are sequences of one-character strings, so that TrimPrefix, Base and    *)
(* the delimiter roll-up of a listing are computed, not assumed.           *)
(***************************************************************************)
EXTENDS Integers, Sequences, FiniteSets, TLC

VARIABLES bucket, req, resp, lastOverwrite, sess

vars == <<bucket, req, resp, lastOverwrite, sess>>

(***************************************************************************)
(* Bounds of the model.                                                    *)
(***************************************************************************)
\* longest object key taken from a URL path
MaxKeyLen == 3
\* longest declared filename of an uploaded part
MaxNameLen == 2
\* most objects the bucket holds at once
MaxObjects == 2
\* watch connections open at once
MaxSessions == 1
\* notifications the backend delivers to one subscription
MaxNotifs == 1
\* receives from the closed notification channel followed in one session
MaxClosedRecv == 1

(***************************************************************************)
(* Program constants.                                                      *)
(***************************************************************************)
\* 10 << 20, the argument of ParseMultipartForm
MaxMemory == 10485760
StatusOK == 200
StatusCreated == 201
StatusBadRequest == 400
StatusNotFound == 404
StatusMethodNotAllowed == 405
StatusInternalServerError == 500
\* 5 * time.Minute, in minutes
Expiry == 5

\* h.bucketName
BucketName == "testbucket"

Methods == {"GET", "POST", "PUT", "DELETE"}

(***************************************************************************)
(* Strings.                                                                *)
(***************************************************************************)
Chars == {"a", "/"}

\* byte value of a character: the order of a listing is byte order
Rank(c) == IF c = "/" THEN 47 ELSE 97

Str(n) == UNION {[1..m -> Chars] : m \in 0..n}

HasEmptySegment(s) ==
    \/ (Len(s) > 0 /\ s[1] = "/")
    \/ \E i \in 1..(Len(s) - 1) : s[i] = "/" /\ s[i + 1] = "/"

\* The remainders of the URL paths that reach a handler registered on a
\* subtree pattern ("/modify/", "/delete/", "/get-download-link/"): the mux
\* redirects a path with an empty segment instead of calling the handler.
UrlKeys == {s \in Str(MaxKeyLen) : ~HasEmptySegment(s)}

\* strings.TrimPrefix
TrimPrefix(s, prefix) ==
    IF Len(s) >= Len(prefix) /\ SubSeq(s, 1, Len(prefix)) = prefix
    THEN SubSeq(s, Len(prefix) + 1, Len(s))
    ELSE s

\* r.URL.Path of a request for `key` below a subtree pattern; the pattern is
\* one token of the path
UrlPath(pattern, key) == <<pattern>> \o key

RECURSIVE StripTrailingSlashes(_)
StripTrailingSlashes(s) ==
    IF Len(s) > 0 /\ s[Len(s)] = "/"
    THEN StripTrailingSlashes(SubSeq(s, 1, Len(s) - 1))
    ELSE s

RECURSIVE AfterLastSlash(_)
AfterLastSlash(s) ==
    IF \E i \in 1..Len(s) : s[i] = "/"
    THEN AfterLastSlash(Tail(s))
    ELSE s

\* filepath.Base, which multipart.Part.FileName applies to the declared
\* filename before it becomes header.Filename
Base(name) ==
    IF name = <<>> THEN <<".">>
    ELSE LET t == StripTrailingSlashes(name)
         IN IF t = <<>> THEN <<"/">> ELSE AfterLastSlash(t)

RECURSIVE LexLess(_, _)
LexLess(s, t) ==
    IF t = <<>> THEN FALSE
    ELSE IF s = <<>> THEN TRUE
    ELSE IF s[1] # t[1] THEN Rank(s[1]) < Rank(t[1])
    ELSE LexLess(Tail(s), Tail(t))

RECURSIVE SortKeys(_)
SortKeys(S) ==
    IF S = {} THEN <<>>
    ELSE LET m == CHOOSE x \in S : \A y \in S \ {x} : LexLess(x, y)
         IN <<m>> \o SortKeys(S \ {m})

RECURSIVE Count(_, _)
Count(x, seq) ==
    IF seq = <<>> THEN 0
    ELSE (IF Head(seq) = x THEN 1 ELSE 0) + Count(x, Tail(seq))


(***************************************************************************)
(* HTTP requests and responses.                                            *)
(***************************************************************************)
\* The uploaded payloads: a content and its size in bytes, one below and one
\* above the 10 MiB figure.
Payloads ==
    { [content |-> "A", size |-> 1],
      [content |-> "B", size |-> MaxMemory + 1] }

\* A request body: not multipart at all, multipart without a file part named
\* "file", or multipart with one such part.
Forms ==
    { [wellFormed |-> FALSE, hasFile |-> FALSE, filename |-> <<>>,
       payload |-> CHOOSE p \in Payloads : p.size = 1] }
    \cup
    { [wellFormed |-> TRUE, hasFile |-> FALSE, filename |-> <<>>,
       payload |-> CHOOSE p \in Payloads : p.size = 1] }
    \cup
    { [wellFormed |-> TRUE, hasFile |-> TRUE, filename |-> n, payload |-> p] :
        n \in {x \in Str(MaxNameLen) : x = <<>> \/ StripTrailingSlashes(x) # <<>>},
        p \in Payloads }

NoBody == CHOOSE f \in Forms : ~f.wellFormed

\* http.Error(w, msg, code): a plain-text body; `calls` is the sequence of
\* backend calls the request made before it was answered
HttpError(msg, code, calls) ==
    [status |-> code, body |-> [kind |-> "text", val |-> msg], calls |-> calls]

\* a []string: Go tells the nil slice from the empty one
NilSlice == [nil |-> TRUE, items |-> <<>>]

\* append(fileList, key)
AppendSlice(s, x) == [nil |-> FALSE, items |-> Append(s.items, x)]

\* json.NewEncoder(w).Encode(fileList): a nil slice encodes as null, any
\* other slice as an array
JsonEncodeSlice(s) ==
    IF s.nil THEN [json |-> "null", items |-> <<>>]
    ELSE [json |-> "array", items |-> s.items]

(***************************************************************************)
(* The storage backend, as the handlers call it.  `ok` is whether the      *)
(* call reaches the backend and is carried out.                            *)
(***************************************************************************)
EmptyBucket == [k \in {} |-> "A"]

\* minioClient.PutObject: create or replace the object under `key`
PutObject(b, key, file, ok) ==
    IF ok
    THEN [err |-> FALSE,
          bucket |-> [k \in DOMAIN b \cup {key} |-> IF k = key THEN file ELSE b[k]]]
    ELSE [err |-> TRUE, bucket |-> b]

\* minioClient.RemoveObject: removing a key that is absent is no error
RemoveObject(b, key, ok) ==
    IF ok
    THEN [err |-> FALSE, bucket |-> [k \in DOMAIN b \ {key} |-> b[k]]]
    ELSE [err |-> TRUE, bucket |-> b]

\* the first byte position of the delimiter in a key, 0 when it has none
FirstSlash(k) ==
    IF \E i \in 1..Len(k) : k[i] = "/"
    THEN CHOOSE i \in 1..Len(k) : k[i] = "/" /\ \A j \in 1..(i - 1) : k[j] # "/"
    ELSE 0

\* minioClient.ListObjects(ctx, bucket, ListObjectsOptions{}): Recursive is
\* false, so the listing is delimited at "/": the keys without a delimiter
\* come as objects, every other key is rolled up into its common prefix
\* (the key up to and including its first "/"), and the channel carries the
\* objects, then the prefixes, each in byte order.  errAt > 0 puts an
\* element with Err set at that position and ends the channel there.
ListObjects(b, errAt) ==
    LET contents == {k \in DOMAIN b : FirstSlash(k) = 0}
        prefixes == {SubSeq(k, 1, FirstSlash(k)) : k \in {x \in DOMAIN b : FirstSlash(x) > 0}}
        all      == SortKeys(contents) \o SortKeys(prefixes)
        infos    == [i \in 1..Len(all) |-> [Key |-> all[i], Err |-> FALSE]]
    IN IF errAt = 0 THEN infos
       ELSE SubSeq(infos, 1, errAt - 1) \o <<[Key |-> <<>>, Err |-> TRUE]>>

\* minioClient.PresignedGetObject: the URL is computed from the key and the
\* expiry; whether the object exists plays no part
PresignedGetObject(key, expiry, ok) ==
    IF ok THEN [err |-> FALSE, url |-> [key |-> key, expiry |-> expiry]]
    ELSE [err |-> TRUE, url |-> [key |-> <<>>, expiry |-> 0]]


(***************************************************************************)
(* The handlers.  Each is an operator from the bucket and the request's    *)
(* inputs to the response and the bucket it leaves.                        *)
(***************************************************************************)
\* r.ParseMultipartForm(maxMemory): maxMemory is how much of the file parts
\* is kept in memory, the rest is spilled to temporary files on disk; it
\* fails only on a body that is not well-formed multipart.  A part with an
\* empty filename is a form value, not a file.
ParseMultipartForm(form, maxMemory) ==
    IF ~form.wellFormed THEN [err |-> TRUE, files |-> <<>>]
    ELSE [err |-> FALSE,
          files |-> IF form.hasFile /\ form.filename # <<>>
                    THEN << [Filename |-> Base(form.filename),
                             Size     |-> form.payload.size,
                             onDisk   |-> form.payload.size > maxMemory,
                             file     |-> form.payload.content] >>
                    ELSE <<>>]

\* r.FormFile("file"): the first file of the field, or ErrMissingFile
FormFile(parsed) ==
    IF parsed.files = <<>> THEN [err |-> TRUE, header |-> <<>>]
    ELSE [err |-> FALSE, header |-> parsed.files[1]]

processAndUploadFile(b, form, objectName, ok) ==
    LET parsed == ParseMultipartForm(form, MaxMemory)
        ff     == FormFile(parsed)
        name   == IF objectName = <<>> THEN ff.header.Filename ELSE objectName
        put    == PutObject(b, name, ff.header.file, ok)
        call   == [op |-> "PutObject", key |-> name, size |-> ff.header.Size]
    IN IF parsed.err
       THEN [bucket |-> b,
             resp |-> HttpError("Could not parse multipart form", StatusBadRequest, <<>>)]
       ELSE IF ff.err
       THEN [bucket |-> b,
             resp |-> HttpError("Could not retrieve file from form-data", StatusBadRequest, <<>>)]
       ELSE IF put.err
       THEN [bucket |-> put.bucket,
             resp |-> HttpError("Failed to upload file", StatusInternalServerError, <<call>>)]
       ELSE [bucket |-> put.bucket,
             resp |-> [status |-> StatusCreated,
                       body   |-> [kind |-> "processed",
                                   val  |-> [key |-> name, bucket |-> BucketName]],
                       calls  |-> <<call>>]]

uploadFileHandler(b, method, form, ok) ==
    IF method # "POST"
    THEN [bucket |-> b,
          resp |-> HttpError("Method not allowed", StatusMethodNotAllowed, <<>>)]
    ELSE processAndUploadFile(b, form, <<>>, ok)

modifyFileHandler(b, method, path, form, ok) ==
    LET objectName == TrimPrefix(path, <<"/modify/">>)
    IN IF method # "PUT"
       THEN [bucket |-> b,
             resp |-> HttpError("Method not allowed", StatusMethodNotAllowed, <<>>)]
       ELSE IF objectName = <<>>
       THEN [bucket |-> b,
             resp |-> HttpError("Object name is required in the URL path", StatusBadRequest, <<>>)]
       ELSE processAndUploadFile(b, form, objectName, ok)

deleteFileHandler(b, method, path, ok) ==
    LET objectName == TrimPrefix(path, <<"/delete/">>)
        rm         == RemoveObject(b, objectName, ok)
        call       == [op |-> "RemoveObject", key |-> objectName]
    IN IF method # "DELETE"
       THEN [bucket |-> b,
             resp |-> HttpError("Method not allowed", StatusMethodNotAllowed, <<>>)]
       ELSE IF objectName = <<>>
       THEN [bucket |-> b,
             resp |-> HttpError("Object name is required", StatusBadRequest, <<>>)]
       ELSE IF rm.err
       THEN [bucket |-> rm.bucket,
             resp |-> HttpError("Failed to delete file", StatusInternalServerError, <<call>>)]
       ELSE [bucket |-> rm.bucket,
             resp |-> [status |-> StatusOK,
                       body   |-> [kind |-> "deleted",
                                   val  |-> [key |-> objectName, bucket |-> BucketName]],
                       calls  |-> <<call>>]]

\* the loop over objectCh: [fileList, failed] after the elements from i on
RECURSIVE RangeObjectCh(_, _, _)
RangeObjectCh(objectCh, i, fileList) ==
    IF i > Len(objectCh) THEN [fileList |-> fileList, failed |-> FALSE]
    ELSE IF objectCh[i].Err THEN [fileList |-> fileList, failed |-> TRUE]
    ELSE RangeObjectCh(objectCh, i + 1, AppendSlice(fileList, objectCh[i].Key))

listFilesHandler(b, method, errAt) ==
    LET objectCh == ListObjects(b, errAt)
        loop     == RangeObjectCh(objectCh, 1, NilSlice)
        call     == [op |-> "ListObjects", key |-> <<>>]
    IN IF method # "GET"
       THEN [bucket |-> b,
             resp |-> HttpError("Method not allowed", StatusMethodNotAllowed, <<>>)]
       ELSE IF loop.failed
       THEN [bucket |-> b,
             resp |-> HttpError("Failed to list files", StatusInternalServerError, <<call>>)]
       ELSE [bucket |-> b,
             resp |-> [status |-> StatusOK,
                       body   |-> [kind |-> "json", val |-> JsonEncodeSlice(loop.fileList)],
                       calls  |-> <<call>>]]

\* getPresignedURLHandler answering a failed signing as the other handlers
\* answer a failed backend call
getPresignedURLHandlerInternalError(b, method, path, ok) ==
    LET objectName == TrimPrefix(path, <<"/get-download-link/">>)
        signed     == PresignedGetObject(objectName, Expiry, ok)
        call       == [op |-> "PresignedGetObject", key |-> objectName]
    IN IF method # "GET"
       THEN [bucket |-> b,
             resp |-> HttpError("Method not allowed", StatusMethodNotAllowed, <<>>)]
       ELSE IF objectName = <<>>
       THEN [bucket |-> b,
             resp |-> HttpError("Object name is required in the URL path", StatusBadRequest, <<>>)]
       ELSE IF signed.err
       THEN [bucket |-> b,
             resp |-> HttpError("Failed to sign", StatusInternalServerError, <<call>>)]
       ELSE [bucket |-> b,
             resp |-> [status |-> StatusOK,
                       body   |-> [kind |-> "url", val |-> signed.url],
                       calls  |-> <<call>>]]

getPresignedURLHandler(b, method, path, ok) ==
    LET objectName == TrimPrefix(path, <<"/get-download-link/">>)
        signed     == PresignedGetObject(objectName, Expiry, ok)
        call       == [op |-> "PresignedGetObject", key |-> objectName]
    IN IF method # "GET"
       THEN [bucket |-> b,
             resp |-> HttpError("Method not allowed", StatusMethodNotAllowed, <<>>)]
       ELSE IF objectName = <<>>
       THEN [bucket |-> b,
             resp |-> HttpError("Object name is required in the URL path", StatusBadRequest, <<>>)]
       ELSE IF signed.err
       THEN [bucket |-> b,
             resp |-> HttpError("File not found or access denied", StatusNotFound, <<call>>)]
       ELSE [bucket |-> b,
             resp |-> [status |-> StatusOK,
                       body   |-> [kind |-> "url", val |-> signed.url],
                       calls  |-> <<call>>]]


(***************************************************************************)
(* The /watch bridge.  A session is one connection's run of                *)
(* watchBucketHandler together with the goroutine that                     *)
(* ListenBucketNotification starts for it:                                 *)
(*   pc         where the handler is: "idle" (not called yet), "loop" (in  *)
(*              the select), "returned", "finished" (returned, and the     *)
(*              server has cancelled the request context)                  *)
(*   ctxDone    r.Context() is cancelled: the client has closed the        *)
(*              connection, or the handler has returned                    *)
(*   sub        the subscription goroutine: "none", "live", "ended"        *)
(*   chan       notificationChan's buffer (capacity 1); chanClosed         *)
(*   sent       notifications the goroutine has put on the channel         *)
(*   out        the frames written to the client stream                    *)
(***************************************************************************)
Sessions == 1..MaxSessions

\* capacity of the channel ListenBucketNotification makes
ChanCap == 1

IdleSession ==
    [pc |-> "idle", method |-> "GET", status |-> 0, ctxDone |-> FALSE,
     sub |-> "none", chan |-> <<>>, chanClosed |-> FALSE,
     sent |-> 0, out |-> <<>>]

\* the zero notification.Info, which a receive from a closed channel yields
ZeroInfo == [Records |-> [nil |-> TRUE, items |-> <<>>], Err |-> FALSE]

\* the n-th notification of a subscription: one record, numbered
Info(n) == [Records |-> [nil |-> FALSE, items |-> <<n>>], Err |-> FALSE]

ErrInfo == [Records |-> [nil |-> TRUE, items |-> <<>>], Err |-> TRUE]

\* json.Marshal(notification.Records); it has no failing input of this type
Marshal(records) == [err |-> FALSE, json |-> JsonEncodeSlice(records)]

\* a frame's text that is not JSON
TextVal(t) == [json |-> t, items |-> <<>>]

\* fmt.Fprintf(w, ...) then flusher.Flush(): `late` records that the request
\* context was already cancelled when the frame was written
Frame(c, kind, val) == [kind |-> kind, val |-> val, late |-> c.ctxDone]

\* a subscription opened on context.Background(), as the other handlers
\* call the backend: it is never cancelled
ListenCtxBackground(c) == FALSE

\* the context ListenBucketNotification is given: r.Context()
ListenCtxDone(c) == c.ctxDone

\* `notification := <-notificationChan` can proceed
CanReceive(c) == c.chan # <<>> \/ c.chanClosed

\* the value received: the head of the buffer, or the zero value once the
\* channel is closed and drained
Received(c) == IF c.chan # <<>> THEN Head(c.chan) ELSE ZeroInfo

\* the case's body without the `return` after the error frame: the handler
\* stays in its loop
OnNotificationNoReturn(c) ==
    LET notification == Received(c)
        rest         == IF c.chan # <<>> THEN Tail(c.chan) ELSE c.chan
        m            == Marshal(notification.Records)
    IN IF notification.Err
       THEN [c EXCEPT !.chan = rest,
                      !.out = Append(@, Frame(c, "error", TextVal("notification.Err")))]
       ELSE IF m.err
       THEN [c EXCEPT !.chan = rest]
       ELSE [c EXCEPT !.chan = rest,
                      !.out = Append(@, Frame(c, "data", m.json))]

\* the body of `case notification := <-notificationChan`
OnNotification(c) ==
    LET notification == Received(c)
        rest         == IF c.chan # <<>> THEN Tail(c.chan) ELSE c.chan
        m            == Marshal(notification.Records)
    IN IF notification.Err
       THEN [c EXCEPT !.chan = rest, !.pc = "returned",
                      !.out = Append(@, Frame(c, "error", TextVal("notification.Err")))]
       ELSE IF m.err
       THEN [c EXCEPT !.chan = rest]
       ELSE [c EXCEPT !.chan = rest,
                      !.out = Append(@, Frame(c, "data", m.json))]

\* watchBucketHandler up to the select loop
watchBucketHandler(c, method, flusherOk) ==
    IF ~flusherOk
    THEN [c EXCEPT !.method = method, !.status = StatusInternalServerError,
                   !.pc = "returned"]
    ELSE [c EXCEPT !.method = method, !.status = StatusOK, !.sub = "live",
                   !.out = <<Frame(c, "comment", TextVal("connection established"))>>,
                   !.pc = "loop"]

ClosedRecvs(c) ==
    Cardinality({i \in 1..Len(c.out) : c.out[i].kind = "data" /\ c.out[i].val.json = "null"})


(***************************************************************************)
(* State machine.                                                          *)
(***************************************************************************)
NoRequest ==
    [endpoint |-> "none", method |-> "GET", path |-> <<>>, form |-> NoBody,
     ok |-> TRUE, errAt |-> 0]

NoResponse == [status |-> 0, body |-> [kind |-> "none", val |-> <<>>], calls |-> <<>>]

\* lastOverwrite remembers the latest successful Overwrite, until its key is
\* written by a Create or removed by a Delete: a history variable, no state
\* of the program
NoOverwrite == [done |-> FALSE, key |-> <<>>, content |-> "A"]

Init ==
    /\ bucket = EmptyBucket
    /\ req = NoRequest
    /\ resp = NoResponse
    /\ lastOverwrite = NoOverwrite
    /\ sess = [s \in Sessions |-> IdleSession]

\* the body drawn for a request the handler turns away on its method: a
\* valid upload of a small file
SmallForms ==
    {f \in Forms : f.hasFile /\ f.payload.size = 1 /\ f.filename = <<"a">>}

\* the bodies drawn for /modify/, where the declared filename plays no part
ModifyForms == {f \in Forms : Len(f.filename) <= 1}

\* the history after a request answered with rsp
Remember(request, rsp) ==
    IF rsp.calls = <<>> \/ rsp.status \notin {StatusOK, StatusCreated}
    THEN lastOverwrite
    ELSE IF request.endpoint = "/modify/"
    THEN [done |-> TRUE, key |-> rsp.calls[1].key,
          content |-> request.form.payload.content]
    ELSE IF request.endpoint \in {"/upload", "/delete/"}
            /\ rsp.calls[1].key = lastOverwrite.key
    THEN NoOverwrite
    ELSE lastOverwrite

\* A request is served: the handler's result becomes the state.  An input
\* the handler did not come to read is recorded at its default.  Requests
\* are served one after another, and req and resp hold the one being
\* answered.
Serve(r, request) ==
    /\ Cardinality(DOMAIN r.bucket) <= MaxObjects
    /\ (r.resp.calls = <<>> => request.ok /\ request.errAt = 0)
    /\ bucket' = r.bucket
    /\ resp' = r.resp
    /\ req' = request
    /\ lastOverwrite' = Remember(request, r.resp)
    /\ UNCHANGED sess

\* the response has gone out and the next request can come
Respond ==
    /\ req # NoRequest
    /\ req' = NoRequest
    /\ resp' = NoResponse
    /\ UNCHANGED <<bucket, lastOverwrite, sess>>

Upload ==
    /\ req = NoRequest
    /\ \E method \in Methods, form \in Forms, ok \in BOOLEAN :
        /\ method # "POST" => form \in SmallForms
        /\ Serve(uploadFileHandler(bucket, method, form, ok),
                 [endpoint |-> "/upload", method |-> method, path |-> <<"/upload">>,
                  form |-> form, ok |-> ok, errAt |-> 0])

Modify ==
    /\ req = NoRequest
    /\ \E method \in Methods, key \in UrlKeys, form \in ModifyForms, ok \in BOOLEAN :
        /\ method # "PUT" => form \in SmallForms
        /\ Serve(modifyFileHandler(bucket, method, UrlPath("/modify/", key), form, ok),
                 [endpoint |-> "/modify/", method |-> method,
                  path |-> UrlPath("/modify/", key),
                  form |-> form, ok |-> ok, errAt |-> 0])

Delete ==
    /\ req = NoRequest
    /\ \E method \in Methods, key \in UrlKeys, ok \in BOOLEAN :
        Serve(deleteFileHandler(bucket, method, UrlPath("/delete/", key), ok),
              [endpoint |-> "/delete/", method |-> method,
               path |-> UrlPath("/delete/", key),
               form |-> NoBody, ok |-> ok, errAt |-> 0])

List ==
    /\ req = NoRequest
    /\ \E method \in Methods, errAt \in 0..(MaxObjects + 1) :
        /\ errAt <= Len(ListObjects(bucket, 0)) + 1
        /\ Serve(listFilesHandler(bucket, method, errAt),
                 [endpoint |-> "/list", method |-> method, path |-> <<"/list">>,
                  form |-> NoBody, ok |-> (errAt = 0), errAt |-> errAt])

GetDownloadLink ==
    /\ req = NoRequest
    /\ \E method \in Methods, key \in UrlKeys, ok \in BOOLEAN :
        Serve(getPresignedURLHandler(bucket, method,
                                     UrlPath("/get-download-link/", key), ok),
              [endpoint |-> "/get-download-link/", method |-> method,
               path |-> UrlPath("/get-download-link/", key),
               form |-> NoBody, ok |-> ok, errAt |-> 0])

Next == Upload \/ Modify \/ Delete \/ List \/ GetDownloadLink \/ Respond

Spec == Init /\ [][Next]_vars


(***************************************************************************)
(* The /watch sessions.  Notifications reach a subscription from every     *)
(* writer of the bucket, so their arrival is an input of the session.      *)
(***************************************************************************)
Step(s, c) ==
    /\ sess' = [sess EXCEPT ![s] = c]
    /\ UNCHANGED <<bucket, req, resp, lastOverwrite>>

\* the methods drawn for /watch, which reads none: the listed one and another
WatchMethods == {"GET", "POST"}

\* a request arrives on /watch and the handler runs up to its select
Watch(s) ==
    \E method \in WatchMethods, flusherOk \in BOOLEAN :
        /\ sess[s].pc = "idle"
        /\ Step(s, watchBucketHandler(sess[s], method, flusherOk))

\* select: case notification := <-notificationChan
SelectNotification(s) ==
    /\ sess[s].pc = "loop"
    /\ CanReceive(sess[s])
    /\ sess[s].chan = <<>> => ClosedRecvs(sess[s]) < MaxClosedRecv
    /\ Step(s, OnNotification(sess[s]))

\* select: case <-r.Context().Done()
SelectDone(s) ==
    /\ sess[s].pc = "loop"
    /\ sess[s].ctxDone
    /\ Step(s, [sess[s] EXCEPT !.pc = "returned"])

\* the client closes the connection: the server cancels the request context
ClientDisconnect(s) ==
    /\ sess[s].pc = "loop"
    /\ ~sess[s].ctxDone
    /\ Step(s, [sess[s] EXCEPT !.ctxDone = TRUE])

\* the server cancels the request context once the handler has returned
ServerCancel(s) ==
    /\ sess[s].pc = "returned"
    /\ Step(s, [sess[s] EXCEPT !.ctxDone = TRUE, !.pc = "finished"])

\* the subscription goroutine puts the next notification on the channel
ListenSend(s) ==
    /\ sess[s].sub = "live"
    /\ Len(sess[s].chan) < ChanCap
    /\ sess[s].sent < MaxNotifs
    /\ Step(s, [sess[s] EXCEPT !.chan = Append(@, Info(sess[s].sent + 1)),
                               !.sent = @ + 1])

\* The subscription reports an error: the goroutine puts it on the channel.
\* After a failed request it then returns, and its deferred close closes
\* the channel; after an event it could not decode it goes on listening.
ListenError(s) ==
    /\ sess[s].sub = "live"
    /\ Len(sess[s].chan) < ChanCap
    /\ \E fatal \in BOOLEAN :
        Step(s, IF fatal
                THEN [sess[s] EXCEPT !.chan = Append(@, ErrInfo),
                                     !.chanClosed = TRUE, !.sub = "ended"]
                ELSE [sess[s] EXCEPT !.chan = Append(@, ErrInfo)])

\* the goroutine sees its context cancelled, returns, and closes the channel
ListenCancel(s) ==
    /\ sess[s].sub = "live"
    /\ ListenCtxDone(sess[s])
    /\ Step(s, [sess[s] EXCEPT !.chanClosed = TRUE, !.sub = "ended"])

\* the connection slot is taken by a new connection
Reconnect(s) ==
    /\ sess[s].pc = "finished"
    /\ sess[s].sub # "live"
    /\ Step(s, IdleSession)

WatchNext ==
    \E s \in Sessions :
        \/ Watch(s)
        \/ SelectNotification(s)
        \/ SelectDone(s)
        \/ ClientDisconnect(s)
        \/ ServerCancel(s)
        \/ ListenSend(s)
        \/ ListenError(s)
        \/ ListenCancel(s)
        \/ Reconnect(s)

WatchSpec == Init /\ [][WatchNext]_vars

\* net/http cancels the request context when ServeHTTP returns, and the Go
\* scheduler runs the subscription goroutine once its context is cancelled.
WatchFairSpec ==
    /\ WatchSpec
    /\ \A s \in Sessions :
        /\ WF_vars(ServerCancel(s))
        /\ WF_vars(ListenCancel(s))


(***************************************************************************)
(* Properties.                                                             *)
(***************************************************************************)
\* the method the spec lists for an endpoint
ListedMethod(endpoint) ==
    CASE endpoint = "/upload" -> "POST"
      [] endpoint = "/modify/" -> "PUT"
      [] endpoint = "/delete/" -> "DELETE"
      [] OTHER -> "GET"

\* the key a request names in its path
PathKey(r) == TrimPrefix(r.path, <<r.endpoint>>)

\* the keys GET /list answers with in a bucket b whose enumeration succeeds
ListNow(b) == listFilesHandler(b, "GET", 0).resp.body.val.items

\* a Create or an Overwrite whose multipart body carries a file
IsUploadOf(r) ==
    /\ r.endpoint \in {"/upload", "/modify/"}
    /\ r.method = ListedMethod(r.endpoint)
    /\ r.endpoint = "/modify/" => PathKey(r) # <<>>
    /\ r.form.wellFormed /\ r.form.hasFile /\ r.form.filename # <<>>

\* C1: a Create or Overwrite whose payload is larger than the 10 MiB cap is
\* answered 413 PayloadTooLarge, makes no backend put, and leaves the bucket
\* as it was.
C1_PayloadTooLarge ==
    [][ (IsUploadOf(req') /\ req'.form.payload.size > MaxMemory)
            => /\ resp'.status = 413
               /\ resp'.calls = <<>>
               /\ bucket' = bucket ]_vars

\* C2: every successful List contains each key stored by a Create or
\* Overwrite and not deleted since exactly once, keys with slashes included.
C2_ListHasStoredKeyOnce ==
    (req.endpoint = "/list" /\ resp.status = StatusOK)
        => \A k \in DOMAIN bucket : Count(k, resp.body.val.items) = 1

\* C3: Delete of a non-empty key that is absent from the bucket answers 200,
\* and List afterwards does not contain the key.
C3_DeleteAbsent ==
    [][ (/\ req'.endpoint = "/delete/" /\ req'.method = "DELETE"
         /\ PathKey(req') # <<>>
         /\ PathKey(req') \notin DOMAIN bucket
         /\ req'.ok)
            => /\ resp'.status = StatusOK
               /\ Count(PathKey(req'), ListNow(bucket')) = 0 ]_vars

\* a successful Overwrite
IsOverwritten(r, rsp) ==
    r.endpoint = "/modify/" /\ r.method = "PUT" /\ rsp.status = StatusCreated

\* C4: a successful Overwrite(k, A) followed by a successful Overwrite(k, B)
\* leaves one object under k, with B's content, changes no other object,
\* and List contains k once.
C4_OverwriteTwice ==
    [][ (/\ IsOverwritten(req', resp')
         /\ lastOverwrite.done /\ lastOverwrite.key = PathKey(req'))
            => /\ PathKey(req') \in DOMAIN bucket'
               /\ bucket'[PathKey(req')] = req'.form.payload.content
               /\ DOMAIN bucket' = DOMAIN bucket
               /\ \A k \in DOMAIN bucket \ {PathKey(req')} : bucket'[k] = bucket[k]
               /\ Count(PathKey(req'), ListNow(bucket')) = 1 ]_vars

\* C5: List on a bucket without objects answers 200 with the empty JSON
\* array, not null.
C5_EmptyListIsArray ==
    (req.endpoint = "/list" /\ req.method = "GET" /\ req.errAt = 0
     /\ bucket = EmptyBucket)
        => /\ resp.status = StatusOK
           /\ resp.body.kind = "json"
           /\ resp.body.val.json = "array"
           /\ resp.body.val.items = <<>>

\* a grant request that reaches the backend
IsGrantRequest(r) ==
    r.endpoint = "/get-download-link/" /\ r.method = "GET" /\ PathKey(r) # <<>>

\* C6: IssueReadGrant with a non-empty key calls the backend presign once;
\* it answers 404 whenever that call fails and never 500, and 200 with one
\* URL for the key when it succeeds.
C6_GrantNotFoundOnFailure ==
    IsGrantRequest(req)
        => /\ Len(resp.calls) = 1
           /\ resp.calls[1] = [op |-> "PresignedGetObject", key |-> PathKey(req)]
           /\ resp.status # StatusInternalServerError
           /\ ~req.ok => resp.status = StatusNotFound
           /\ req.ok => /\ resp.status = StatusOK
                        /\ resp.body.kind = "url"
                        /\ resp.body.val = [key |-> PathKey(req), expiry |-> Expiry]

C6_Witness ==
    IsGrantRequest(req) /\ ~req.ok /\ resp.status = StatusNotFound
    /\ Len(resp.calls) = 1

\* the five request/response endpoints turn a wrong method away
FacadeWrongMethod ==
    (req.endpoint # "none" /\ req.method # ListedMethod(req.endpoint))
        => resp.status = StatusMethodNotAllowed /\ resp.calls = <<>>

\* C7: on each of the six endpoints a request with another method than the
\* listed one is answered 405 and causes no backend operation.
C7_WrongMethod ==
    /\ FacadeWrongMethod
    /\ \A s \in Sessions :
        (sess[s].pc # "idle" /\ sess[s].method # ListedMethod("/watch"))
            => sess[s].status = StatusMethodNotAllowed /\ sess[s].sub = "none"

\* the data: frames of a session's stream, in the order written
RECURSIVE DataFrames(_)
DataFrames(out) ==
    IF out = <<>> THEN <<>>
    ELSE (IF Head(out).kind = "data" THEN <<Head(out).val>> ELSE <<>>)
         \o DataFrames(Tail(out))

\* the notifications still in the channel
InFlight(c) == Cardinality({i \in 1..Len(c.chan) : ~c.chan[i].Err})

\* C8: in a session the data: frames are exactly the notifications the
\* handler has received from the subscription, one frame each, in the order
\* the backend delivered them.
C8_OneFramePerNotification ==
    \A s \in Sessions :
        LET d == DataFrames(sess[s].out)
        IN /\ Len(d) = sess[s].sent - InFlight(sess[s])
           /\ \A i \in 1..Len(d) : d[i] = Marshal(Info(i).Records).json

\* the session is over: its handler has returned or its client has gone
SessionOver(s) == sess[s].pc \in {"returned", "finished"} \/ sess[s].ctxDone

\* C9: once a session is over, on whichever path, its backend subscription
\* is eventually ended: none stays live without its watcher.
C9_NoOrphanSubscription ==
    \A s \in Sessions : SessionOver(s) ~> (sess[s].sub # "live")

\* a session that subscribed and returned on the client's disconnect (its
\* last frame is no error frame), with its subscription ended
C9_Witness ==
    \E s \in Sessions :
        /\ sess[s].pc = "finished"
        /\ sess[s].out # <<>>
        /\ sess[s].out[Len(sess[s].out)].kind # "error"
        /\ sess[s].sub = "ended"

\* C10: nothing is written to the client stream after the client-closed
\* signal of the session has fired.
C10_SilentAfterDisconnect ==
    \A s \in Sessions :
        \A i \in 1..Len(sess[s].out) : ~sess[s].out[i].late

\* the session's stream holds an error frame
HasErrorFrame(c) == \E i \in 1..Len(c.out) : c.out[i].kind = "error"

\* the handler takes an error off notificationChan in this step
ReceivesError(s) ==
    /\ sess[s].pc = "loop"
    /\ sess[s].chan # <<>>
    /\ Head(sess[s].chan).Err
    /\ sess'[s].chan = Tail(sess[s].chan)

\* C11: when the handler receives an error from its subscription, it writes
\* one event: error frame carrying the error and returns; once a stream
\* holds an error frame nothing more is written to it; and a session opens
\* a subscription only once, when its handler starts (no reconnect).
C11_ErrorEndsSession ==
    [][ \A s \in Sessions :
          /\ ReceivesError(s)
                => /\ sess'[s].out = Append(sess[s].out,
                                            [kind |-> "error",
                                             val  |-> TextVal("notification.Err"),
                                             late |-> sess[s].ctxDone])
                   /\ sess'[s].pc = "returned"
                   /\ sess'[s].sub = sess[s].sub
          /\ HasErrorFrame(sess[s])
                => /\ sess'[s].out = sess[s].out \/ sess'[s] = IdleSession
                   /\ sess'[s].pc # "loop"
                   /\ sess'[s].sub = "live" => sess[s].sub = "live"
          /\ (sess'[s].sub = "live" /\ sess[s].sub # "live")
                => sess[s].pc = "idle" /\ sess[s].out = <<>> ]_vars

\* a session that wrote a data frame, then received an error, wrote the
\* error frame as its last frame and returned
C11_Witness ==
    \E s \in Sessions :
        /\ sess[s].pc \in {"returned", "finished"}
        /\ Len(sess[s].out) = 3
        /\ sess[s].out[2].kind = "data"
        /\ sess[s].out[3].kind = "error"
        /\ Cardinality({i \in 1..3 : sess[s].out[i].kind = "error"}) = 1

\* the keys of an enumeration, in its order
Keys(objectCh) == [i \in 1..Len(objectCh) |-> objectCh[i].Key]

\* C12: List answers 500 InternalError with none of the enumerated keys when
\* an element of the enumeration carries an error; otherwise it answers 200
\* with the JSON array of all the enumerated keys, in enumeration order.
C12_ListAllOrNothing ==
    (req.endpoint = "/list" /\ req.method = "GET")
        => LET objectCh == ListObjects(bucket, req.errAt)
           IN /\ resp.calls = <<[op |-> "ListObjects", key |-> <<>>]>>
              /\ req.errAt > 0
                    => /\ resp.status = StatusInternalServerError
                       /\ resp.body.kind = "text"
              /\ req.errAt = 0
                    => /\ resp.status = StatusOK
                       /\ resp.body.kind = "json"
                       /\ resp.body.val.json = "array"
                       /\ resp.body.val.items = Keys(objectCh)

\* the key the spec resolves for a Create or an Overwrite: the explicit key
\* of the path when there is one, else the filename the file part declares
ResolvedKey(r) ==
    IF r.endpoint = "/modify/" THEN PathKey(r) ELSE r.form.filename

\* C13: a Create or an Overwrite puts under the explicit key verbatim when it
\* is non-empty and under the file's declared filename otherwise; when the
\* put succeeds the answer is 201 echoing that key and the bucket name; an
\* Overwrite with an empty key is answered 400 and makes no put.
C13_ResolvedKey ==
    /\ IsUploadOf(req)
          => /\ Len(resp.calls) = 1
             /\ resp.calls[1].op = "PutObject"
             /\ resp.calls[1].key = ResolvedKey(req)
             /\ req.ok
                   => /\ resp.status = StatusCreated
                      /\ resp.body.kind = "processed"
                      /\ resp.body.val = [key |-> ResolvedKey(req), bucket |-> BucketName]
                      /\ ResolvedKey(req) \in DOMAIN bucket
    /\ (req.endpoint = "/modify/" /\ req.method = "PUT" /\ PathKey(req) = <<>>)
          => /\ resp.status = StatusBadRequest
             /\ resp.calls = <<>>

====
